---- MODULE Spec2Model ----
(***************************************************************************)
(* Model of src/enzyme_call.cc: the CpuKernel registry (create / get /     *)
(* call), the process-wide JIT singleton, and the CpuCallback dispatcher,  *)
(* run by several threads that share the static members of CpuKernel.      *)
(***************************************************************************)
EXTENDS Integers, Sequences, FiniteSets, Bags, TLC

\* ---------------------------------------------------------------- bounds
NumThreads == 2
MaxCreates == 2

\* ------------------------------------------------------- values and inputs
\* nullptr of CpuKernel::get, and of an unset unique_ptr
Null == 0
\* out_shapes arguments a caller may supply to create
OneOut == << <<4>> >>
TwoOut == << <<4>>, <<2, 3>> >>

\* data layouts a compiled module may report; the toolchain arguments (pyargv)
\* of a create call select the target, and with it the layout
Layouts == {1, 2}

\* the create calls a host makes: shapes and element type names of outputs
\* and inputs, and pyargv (as the layout its target has)
CreateInputs ==
  {[out_shapes |-> OneOut, out_names |-> <<"float">>,
    in_shapes |-> TwoOut, in_names |-> <<"float", "double">>, pyargv |-> 1],
   [out_shapes |-> TwoOut, out_names |-> <<"double", "float">>,
    in_shapes |-> OneOut, in_names |-> <<"float">>, pyargv |-> 2]}

\* the user's source text, one token of the synthesized text
UserSource == "<source>"

\* most descriptors in a list a create call is given
MaxArgs == 2

\* (dtype, shape) descriptors as the binding receives them, and lists of them
Descriptors == [dtype : {"float", "double"}, shape : {<< >>, <<2, 3>>}]
DescriptorLists == UNION {[1..n -> Descriptors] : n \in 0..MaxArgs}

\* lines 217-238: the binding splits a list of descriptors into two lists
TypesOf(ds) == [i \in 1..Len(ds) |-> ds[i].dtype]
ShapesOf(ds) == [i \in 1..Len(ds) |-> ds[i].shape]

\* The memory of the host at a callback, by address. The host passes `out`
\* (HostOut) and `ins` (HostIns). Slot 0 of the array at HostIns points to the
\* cell that holds the identifier, the slots after it hold the pointers to the
\* input buffers. Read as an array, HostOut holds the pointers to the output
\* buffers. StackOut is the address of the parameter `out` of call.
HostOut == 100
HostIns == 200
IdCell == 300
StackOut == 900
HostInputPointers == <<401, 402>>
HostOutputPointers == <<501, 502>>

\* a llvm::Module as returned by GetLLVMFromJob: the layout it reports and the
\* translation unit (the create call) it was compiled from
NoMod == [layout |-> 0, unit |-> 0]
Module(l, u) == [layout |-> l, unit |-> u]

VARIABLES
  \* static members of CpuKernel (lines 172-182)
  kernels,          \* DenseMap: identifier -> pointer to a CpuKernel object
  last_identifier,  \* int64_t, starts at 1
  kernel_mutex,     \* SmartRWMutex: [writer held, number of readers]
  JIT,              \* unique_ptr<LLJIT>: TRUE once constructed
  DL,               \* unique_ptr<DataLayout>: Null or the layout it holds
  \* objects behind the static members
  heap,             \* CpuKernel objects, indexed by pointer
  dylibs,           \* the JITDylibs of the ExecutionSession, in creation order
  aborted,          \* the process was terminated (report_fatal_error / assert)
  \* The threads of the process, as the bag of their frames. A frame holds the
  \* position (pc) and the locals of the call the thread runs:
  \*   identifier   local `identifier` of create / of CpuCallback
  \*   out_shapes   parameter of create
  \*   pyargv       parameter of create
  \*   mod          local `mod` of create
  \*   LibA         local `LibA` of create: index into dylibs
  \*   Entry        local `Entry` of create
  \*   tid          the number of the thread where threads are told apart
  \*                (under SpecFair), 0 where they are not
  \*   out_names, in_shapes, in_names   parameters of create
  \*   input        local `input` of create: the synthesized text, as the
  \*                sequence of the strings written to the stream
  \*   kernel       local `kernel` of CpuCallback (the result of get)
  \*   cell         the int64 the host stored in the cell ins[0] points to
  \*   out, ins     parameters of CpuCallback; out is also the parameter of call
  \*   outs         local `outs` of call
  \*   call_ins     parameter `ins` of call
  \*   fn           local `fn` of call: the address that is entered
  \*   snap         history: the registry as create found it on taking the lock
  \*   known        history: a successful create had returned `identifier`
  \*                when get looked it up
  \* Threads carry no identity of their own in the code, so two threads with
  \* equal frames are two copies of one element of the bag.
  threads,
  \* history (not program state)
  allocated,        \* identifiers in the order the allocation handed them out
  returned,         \* identifiers in the order successful creates returned them
  supplied,         \* returned identifier -> out_shapes passed to that create
  failed,           \* identifiers whose create raised
  compiled,         \* the first module GetLLVMFromJob returned, or NoMod
  attempts          \* the runs of the LLJIT builder, in order: the module
                    \* at hand and whether the builder succeeded

statics == <<kernels, last_identifier, kernel_mutex, JIT, DL>>
objects == <<heap, dylibs, aborted>>
history == <<allocated, returned, supplied, failed, compiled, attempts>>
vars == <<statics, objects, threads, history>>

EmptyMap == [k \in {} |-> Null]

\* ------------------------------------------------------------ pure helpers
\* CpuKernel::CpuKernel: the three fields; out_shapes is copied by assign
CpuKernelCtorNoIdentifier(id, shapes, addr) ==
  [identifier |-> 0, out_shapes |-> shapes, addr |-> addr]
CpuKernelCtorNoAssign(id, shapes, addr) ==
  [identifier |-> id, out_shapes |-> << >>, addr |-> addr]
CpuKernelCtor(id, shapes, addr) ==
  [identifier |-> id, out_shapes |-> shapes, addr |-> addr]

\* last_identifier++ : the value the counter holds afterwards
NoIncrement(n) == n
PostIncrement(n) == n + 1

\* DenseMap::try_emplace: inserts only when the key is absent
EmplaceEvicting(m, k, p) == [x \in {k} |-> p]
TryEmplace(m, k, p) ==
  IF k \in DOMAIN m THEN m
  ELSE [x \in DOMAIN m \cup {k} |-> IF x = k THEN p ELSE m[x]]

\* The key DenseMapInfo<int64_t> keeps for its empty buckets, INT64_MAX. It
\* stands here as the largest integer of the checker; identifiers are only
\* compared, never computed with.
EmptyKey == 2147483647

\* The key DenseMapInfo<int64_t> keeps for erased buckets, INT64_MAX - 1. The
\* code erases nothing, so no bucket ever holds it.
TombstoneKey == EmptyKey - 1

\* a pointer that is not null and points to no CpuKernel, and an address
\* that is not null and is no entry of a dylib
Wild == -1

\* DenseMap::find followed by the end() test of get: the pointers get can
\* return. A registered key gives its pointer, any other key nullptr, except
\* the empty key once buckets exist: find takes an empty bucket for a match,
\* and get reads the unique_ptr of that bucket, which was never initialized.
\* The read gives nullptr or any other value, a registered pointer included.
Find(m, k) ==
  IF k \in DOMAIN m THEN {m[k]}
  ELSE IF k = EmptyKey /\ DOMAIN m # {}
       THEN {Null, Wild} \cup {m[x] : x \in DOMAIN m}
       ELSE {Null}

\* "enzymedl_" + std::to_string(identifier): the name is given by the number
DylibNameFixed(id) == 1
DylibName(id) == id

\* address of the symbol "entry" of a materialized dylib: distinct per dylib
EntryAddress(lib) == lib

\* SmartRWMutex: a writer needs the lock free, a reader needs no writer
CanLockDespiteReaders(m) == ~m.writer
CanLock(m) == ~m.writer /\ m.readers = 0
CanLockSharedAlone(m) == ~m.writer /\ m.readers = 0
CanLockShared(m) == ~m.writer

Unlocked == [writer |-> FALSE, readers |-> 0]

\* a thread that runs no call
Idle == [pc |-> "idle", identifier |-> 0, out_shapes |-> << >>, pyargv |-> 0,
         out_names |-> << >>, in_shapes |-> << >>, in_names |-> << >>,
         input |-> << >>,
         mod |-> NoMod, LibA |-> 0, Entry |-> 0, kernel |-> Null,
         cell |-> 0, out |-> Null, ins |-> Null, outs |-> Null,
         call_ins |-> Null, fn |-> Null,
         snap |-> EmptyMap, known |-> FALSE, tid |-> 0]

\* the frame of thread th after its call has returned or thrown
Leave(th) == [Idle EXCEPT !.tid = th.tid]

\* ------------------------------------------------------ source synthesis
\* The text is the sequence of the strings the code writes; a number is the
\* string std::to_string gives.

\* lines 69-71: ", " and the extent, for every extent of the shape
RECURSIVE Extents(_)
Extents(shape) ==
  IF shape = << >> THEN << >>
  ELSE <<", ", ToString(Head(shape))>> \o Extents(Tail(shape))

\* lines 67-73
make_type(typenam, shape, constv) ==
  (IF constv THEN <<"const ">> ELSE << >>) \o <<"enzyme::tensor<", typenam>>
    \o Extents(shape) \o <<">">>

\* lines 91-93: the loop over the outputs, from index i on
RECURSIVE OutBinds(_, _, _)
OutBinds(i, out_names, out_shapes) ==
  IF i < Len(out_shapes)
  THEN <<" ">> \o make_type(out_names[i + 1], out_shapes[i + 1], FALSE)
         \o <<"& out_", ToString(i), " = ", "*(">>
         \o make_type(out_names[i + 1], out_shapes[i + 1], FALSE)
         \o <<"*)outs[", ToString(i), "];\n">>
         \o OutBinds(i + 1, out_names, out_shapes)
  ELSE << >>

\* lines 94-96: the loop over the inputs, from index i on
RECURSIVE InBinds(_, _, _)
InBinds(i, in_names, in_shapes) ==
  IF i < Len(in_shapes)
  THEN <<" ">> \o make_type(in_names[i + 1], in_shapes[i + 1], TRUE)
         \o <<"& in_", ToString(i), " = ", "*(">>
         \o make_type(in_names[i + 1], in_shapes[i + 1], TRUE)
         \o <<"*)ins[", ToString(i), "];\n">>
         \o InBinds(i + 1, in_names, in_shapes)
  ELSE << >>

\* lines 99-103 and 104-108: one loop over the arguments, from index i on,
\* with the flag `comma` as it stands
RECURSIVE Args(_, _, _, _)
Args(name, i, n, comma) ==
  IF i < n
  THEN (IF comma THEN <<", ">> ELSE << >>) \o <<name, ToString(i)>>
         \o Args(name, i + 1, n, TRUE)
  ELSE << >>

\* lines 97-109: the call of the user's function
CallInputsFirst(m, n) ==
  <<"  myfn(">> \o Args("in_", 0, n, FALSE) \o Args("out_", 0, m, n > 0)
    \o <<");\n">>
Call(m, n) ==
  <<"  myfn(">> \o Args("out_", 0, m, FALSE) \o Args("in_", 0, n, m > 0)
    \o <<");\n">>

EntryHeader ==
  "extern \"C\" void entry(void** __restrict__ outs, void** __restrict__ ins) {\n"

\* lines 86-111
Synthesize(source, out_shapes, out_names, in_shapes, in_names) ==
  <<"#include <cstdint>\n", "#include <enzyme_tensor>\n", source, "\n",
    EntryHeader>>
    \o OutBinds(0, out_names, out_shapes)
    \o InBinds(0, in_names, in_shapes)
    \o Call(Len(out_shapes), Len(in_shapes))
    \o <<"}\n">>

\* what the thread with frame th reads at address a
Load(th, a) ==
  CASE a = StackOut -> th.out
    [] a = IdCell -> th.cell
    [] a = HostIns -> IdCell
    [] a \in (HostIns + 1)..(HostIns + Len(HostInputPointers)) ->
         HostInputPointers[a - HostIns]
    [] a \in HostOut..(HostOut + Len(HostOutputPointers) - 1) ->
         HostOutputPointers[a - HostOut + 1]
    [] OTHER -> Null

\* line 163: out_shapes.size() > 1 ? reinterpret_cast<void **>(out) : &out
OutsWhenAny(n, out) == IF n > 0 THEN out ELSE StackOut
Outs(n, out) == IF n > 1 THEN out ELSE StackOut

\* line 194: ins + 1
CallIns(ins) == ins + 1

Running == BagToSet(threads)
Count(S) == BagCardinality([th \in Running \cap S |-> threads[th]])
At(P) == {th \in Running : th.pc \in P}

\* the thread with frame th continues with frame new
Move(th, new) == threads' = (threads (-) SetToBag({th})) (+) SetToBag({new})

\* the registry as a reader sees it: identifier -> the CpuKernel it reaches
Registry == [k \in DOMAIN kernels |-> heap[kernels[k]]]

InCreateBody == {"c_alloc", "c_compile", "c_jit", "c_dylib", "c_add",
                 "c_lookup", "c_emplace"}

\* ------------------------------------------------------------------- Init
Init ==
  /\ kernels = EmptyMap
  /\ last_identifier = 1
  /\ kernel_mutex = Unlocked
  /\ JIT = FALSE
  /\ DL = Null
  /\ heap = << >>
  /\ dylibs = << >>
  /\ aborted = FALSE
  /\ threads = [th \in {Idle} |-> NumThreads]
  /\ allocated = << >>
  /\ returned = << >>
  /\ supplied = EmptyMap
  /\ failed = {}
  /\ compiled = NoMod
  /\ attempts = << >>

\* ----------------------------------------------------------------- create
\* number of create calls begun so far: those that have taken an identifier
\* (line 82) and those that wait for the writer lock or hold it before line 82
CreateCalls == Len(allocated) + Count(At({"c_lock", "c_alloc"}))

\* a thread enters create(source, out_shapes, ..., pyargv) and blocks on the
\* writer lock
CallCreate(th) ==
  /\ ~aborted /\ th.pc = "idle"
  /\ CreateCalls < MaxCreates
  /\ \E in \in CreateInputs :
       Move(th, [th EXCEPT !.pc = "c_lock", !.out_shapes = in.out_shapes,
                           !.out_names = in.out_names,
                           !.in_shapes = in.in_shapes,
                           !.in_names = in.in_names,
                           !.pyargv = in.pyargv])
  /\ UNCHANGED <<statics, objects, history>>

\* line 81: SmartScopedWriter lock(kernel_mutex)
CreateLock(th) ==
  /\ ~aborted /\ th.pc = "c_lock"
  /\ CanLock(kernel_mutex)
  /\ kernel_mutex' = [kernel_mutex EXCEPT !.writer = TRUE]
  /\ Move(th, [th EXCEPT !.pc = "c_alloc", !.snap = Registry])
  /\ UNCHANGED <<kernels, last_identifier, JIT, DL, objects, history>>

\* line 82: int64_t identifier = last_identifier++; lines 86-111: the source
\* is synthesized
CreateAlloc(th) ==
  /\ ~aborted /\ th.pc = "c_alloc"
  /\ last_identifier' = PostIncrement(last_identifier)
  /\ allocated' = Append(allocated, last_identifier)
  /\ Move(th, [th EXCEPT !.pc = "c_compile", !.identifier = last_identifier,
                         !.input = Synthesize(UserSource, th.out_shapes,
                                              th.out_names, th.in_shapes,
                                              th.in_names)])
  /\ UNCHANGED <<kernels, kernel_mutex, JIT, DL, objects>>
  /\ UNCHANGED <<returned, supplied, failed, compiled, attempts>>

\* a throw out of create: the scoped writer is destroyed, the locals die
RaiseKeepingLock(th) ==
  /\ kernel_mutex' = kernel_mutex
  /\ failed' = failed \cup {th.identifier}
  /\ Move(th, Leave(th))
  /\ UNCHANGED <<allocated, returned, supplied, compiled>>
Raise(th) ==
  /\ kernel_mutex' = [kernel_mutex EXCEPT !.writer = FALSE]
  /\ failed' = failed \cup {th.identifier}
  /\ Move(th, Leave(th))
  /\ UNCHANGED <<allocated, returned, supplied, compiled>>

\* line 113: GetLLVMFromJob returns a module for the synthesized source
CreateCompile(th) ==
  /\ ~aborted /\ th.pc = "c_compile"
  /\ Move(th, [th EXCEPT !.pc = "c_jit",
                         !.mod = Module(th.pyargv, th.identifier)])
  /\ compiled' = IF compiled = NoMod THEN Module(th.pyargv, th.identifier)
                  ELSE compiled
  /\ UNCHANGED <<statics, objects>>
  /\ UNCHANGED <<allocated, returned, supplied, failed, attempts>>

\* lines 113-115: GetLLVMFromJob returns null, "failed to compile C++"
CreateCompileFailReclaim(th) ==
  /\ ~aborted /\ th.pc = "c_compile"
  /\ Raise(th)
  /\ UNCHANGED attempts
  /\ last_identifier' = th.identifier
  /\ UNCHANGED <<kernels, JIT, DL, objects>>
CreateCompileFail(th) ==
  /\ ~aborted /\ th.pc = "c_compile"
  /\ Raise(th)
  /\ UNCHANGED attempts
  /\ UNCHANGED <<kernels, last_identifier, JIT, DL, objects>>

\* line 117: JIT is already set, the initialization is skipped
CreateJITRebuild(th) ==
  /\ ~aborted /\ th.pc = "c_jit"
  /\ JIT
  /\ DL' = th.mod.layout
  /\ attempts' = Append(attempts, [mod |-> th.mod, ok |-> TRUE])
  /\ Move(th, [th EXCEPT !.pc = "c_dylib"])
  /\ UNCHANGED <<kernels, last_identifier, kernel_mutex, JIT, objects>>
  /\ UNCHANGED <<allocated, returned, supplied, failed, compiled>>
CreateJITSkipRederive(th) ==
  /\ ~aborted /\ th.pc = "c_jit"
  /\ JIT
  /\ DL' = th.mod.layout
  /\ Move(th, [th EXCEPT !.pc = "c_dylib"])
  /\ UNCHANGED <<kernels, last_identifier, kernel_mutex, JIT, objects, history>>
CreateJITSkip(th) ==
  /\ ~aborted /\ th.pc = "c_jit"
  /\ JIT
  /\ Move(th, [th EXCEPT !.pc = "c_dylib"])
  /\ UNCHANGED <<statics, objects, history>>

\* lines 117-128: DL is derived from mod, the LLJIT is built and stored
CreateJITInit(th) ==
  /\ ~aborted /\ th.pc = "c_jit"
  /\ ~JIT
  /\ DL' = th.mod.layout
  /\ JIT' = TRUE
  /\ attempts' = Append(attempts, [mod |-> th.mod, ok |-> TRUE])
  /\ Move(th, [th EXCEPT !.pc = "c_dylib"])
  /\ UNCHANGED <<kernels, last_identifier, kernel_mutex, objects>>
  /\ UNCHANGED <<allocated, returned, supplied, failed, compiled>>

\* lines 117-126: DL is derived from mod, the builder fails, "failed to create
\* jit"
CreateJITFailNoThrow(th) ==
  /\ ~aborted /\ th.pc = "c_jit"
  /\ ~JIT
  /\ DL' = th.mod.layout
  /\ attempts' = Append(attempts, [mod |-> th.mod, ok |-> FALSE])
  /\ Move(th, [th EXCEPT !.pc = "c_dylib"])
  /\ UNCHANGED <<kernels, last_identifier, kernel_mutex, JIT, objects>>
  /\ UNCHANGED <<allocated, returned, supplied, failed, compiled>>
CreateJITFail(th) ==
  /\ ~aborted /\ th.pc = "c_jit"
  /\ ~JIT
  /\ DL' = th.mod.layout
  /\ attempts' = Append(attempts, [mod |-> th.mod, ok |-> FALSE])
  /\ Raise(th)
  /\ UNCHANGED <<kernels, last_identifier, JIT, objects>>

\* line 131: createJITDylib("enzymedl_" + identifier). A name already in the
\* session trips the assertion of the session in a build with assertions and
\* yields a second dylib of that name in a build without.
CreateDylib(th) ==
  /\ ~aborted /\ th.pc = "c_dylib"
  /\ LET name == DylibName(th.identifier)
         fresh == \A i \in 1..Len(dylibs) : dylibs[i].name # name
         push ==
           /\ dylibs' = Append(dylibs, [name |-> name, module |-> NoMod.unit,
                                        materialized |-> FALSE])
           /\ Move(th, [th EXCEPT !.pc = "c_add", !.LibA = Len(dylibs) + 1])
           /\ UNCHANGED aborted
         trip ==
           /\ aborted' = TRUE
           /\ UNCHANGED <<dylibs, threads>>
     IN  IF fresh THEN push ELSE (push \/ trip)
  /\ UNCHANGED <<statics, heap, history>>

\* line 135: addIRModule(LibA, mod) succeeds; mod is moved into the dylib
CreateAddModule(th) ==
  /\ ~aborted /\ th.pc = "c_add"
  /\ dylibs' = [dylibs EXCEPT ![th.LibA].module = th.mod.unit]
  /\ Move(th, [th EXCEPT !.pc = "c_lookup", !.mod = NoMod])
  /\ UNCHANGED <<statics, heap, aborted, history>>

\* lines 135-138: addIRModule returns an error, "failed to add IR module"
CreateAddModuleFail(th) ==
  /\ ~aborted /\ th.pc = "c_add"
  /\ Raise(th)
  /\ UNCHANGED attempts
  /\ UNCHANGED <<kernels, last_identifier, JIT, DL, objects>>

\* lines 141-147: lookup(LibA, "entry") materializes the dylib; Entry is the
\* address of its symbol
CreateLookup(th) ==
  /\ ~aborted /\ th.pc = "c_lookup"
  /\ dylibs' = [dylibs EXCEPT ![th.LibA].materialized = TRUE]
  /\ Move(th, [th EXCEPT !.pc = "c_emplace", !.Entry = EntryAddress(th.LibA)])
  /\ UNCHANGED <<statics, heap, aborted, history>>

\* lines 141-144: lookup fails, "failed to lookup function called 'entry'"
CreateLookupFailRegistered(th) ==
  /\ ~aborted /\ th.pc = "c_lookup"
  /\ Raise(th)
  /\ UNCHANGED attempts
  /\ kernels' = TryEmplace(kernels, th.identifier, Len(heap) + 1)
  /\ heap' = Append(heap, CpuKernelCtor(th.identifier, th.out_shapes, Null))
  /\ UNCHANGED <<last_identifier, JIT, DL, dylibs, aborted>>
CreateLookupFail(th) ==
  /\ ~aborted /\ th.pc = "c_lookup"
  /\ Raise(th)
  /\ UNCHANGED attempts
  /\ UNCHANGED <<kernels, last_identifier, JIT, DL, objects>>

\* lines 149-153: make_unique<CpuKernel>, try_emplace, return identifier; the
\* scoped writer is destroyed on the way out. An object that try_emplace does
\* not take is destroyed again with its unique_ptr.
CreateEmplace(th) ==
  /\ ~aborted /\ th.pc = "c_emplace"
  /\ LET obj == CpuKernelCtor(th.identifier, th.out_shapes, th.Entry)
         p == Len(heap) + 1
     IN  /\ kernels' = TryEmplace(kernels, th.identifier, p)
         /\ heap' = IF th.identifier \in DOMAIN kernels THEN heap
                    ELSE Append(heap, obj)
  /\ kernel_mutex' = [kernel_mutex EXCEPT !.writer = FALSE]
  /\ returned' = Append(returned, th.identifier)
  /\ supplied' = [k \in DOMAIN supplied \cup {th.identifier} |->
                    IF k = th.identifier THEN th.out_shapes ELSE supplied[k]]
  /\ Move(th, Leave(th))
  /\ UNCHANGED <<last_identifier, JIT, DL, dylibs, aborted>>
  /\ UNCHANGED <<allocated, failed, compiled, attempts>>

\* ------------------------------------------------------- CpuCallback / get
\* identifiers a host may pass in ins[0]: registered, consumed or not yet
\* used, and the empty key and the tombstone key of the DenseMap
HostIdentifiers == 1..MaxCreates \cup {EmptyKey, TombstoneKey}

\* line 187: identifier = *ins[0]; line 188 enters get, which blocks on the
\* reader lock
CallCallback(th) ==
  /\ ~aborted /\ th.pc = "idle"
  /\ \E id \in HostIdentifiers :
       LET f == [th EXCEPT !.out = HostOut, !.ins = HostIns, !.cell = id]
       IN  Move(th, [f EXCEPT !.pc = "g_lock",
                              !.identifier = Load(f, Load(f, f.ins))])
  /\ UNCHANGED <<statics, objects, history>>

\* line 156: SmartScopedReader lock(kernel_mutex)
GetLock(th) ==
  /\ ~aborted /\ th.pc = "g_lock"
  /\ CanLockShared(kernel_mutex)
  /\ kernel_mutex' = [kernel_mutex EXCEPT !.readers = @ + 1]
  /\ Move(th, [th EXCEPT !.pc = "g_find"])
  /\ UNCHANGED <<kernels, last_identifier, JIT, DL, objects, history>>

\* lines 157-160: find, the end() test, return; the scoped reader is destroyed
GetFindKeepingLock(th) ==
  /\ ~aborted /\ th.pc = "g_find"
  /\ \E p \in Find(kernels, th.identifier) :
       Move(th, [th EXCEPT !.pc = "g_done", !.kernel = p,
                           !.known = th.identifier \in DOMAIN supplied])
  /\ UNCHANGED <<statics, objects, history>>
GetFind(th) ==
  /\ ~aborted /\ th.pc = "g_find"
  /\ kernel_mutex' = [kernel_mutex EXCEPT !.readers = @ - 1]
  /\ \E p \in Find(kernels, th.identifier) :
       Move(th, [th EXCEPT !.pc = "g_done", !.kernel = p,
                           !.known = th.identifier \in DOMAIN supplied])
  /\ UNCHANGED <<kernels, last_identifier, JIT, DL, objects, history>>

\* line 157 in a build with assertions: find of the empty key or of the
\* tombstone key, once buckets exist, trips the assertion of DenseMap, which
\* ends the process inside get
GetFindAssert(th) ==
  /\ ~aborted /\ th.pc = "g_find"
  /\ th.identifier \in {EmptyKey, TombstoneKey} /\ DOMAIN kernels # {}
  /\ aborted' = TRUE
  /\ UNCHANGED <<statics, heap, dylibs, threads, history>>

\* lines 189-192: kernel is null, report_fatal_error ends the process
CbFatal(th) ==
  /\ ~aborted /\ th.pc = "g_done"
  /\ th.kernel = Null
  /\ aborted' = TRUE
  /\ Move(th, [th EXCEPT !.pc = "fatal"])
  /\ UNCHANGED <<statics, heap, dylibs, history>>

\* lines 194, 162-167: kernel->call(out, ins + 1) sets up outs and enters the
\* native entry at addr with (outs, ins)
CbCall(th) ==
  /\ ~aborted /\ th.pc = "g_done"
  /\ th.kernel # Null /\ th.kernel # Wild
  /\ Move(th, [th EXCEPT !.pc = "native",
                         !.call_ins = CallIns(th.ins),
                         !.outs = Outs(Len(heap[th.kernel].out_shapes), th.out),
                         !.fn = heap[th.kernel].addr])
  /\ UNCHANGED <<statics, objects, history>>

\* lines 189, 194, 163-167: a pointer that is not null passes the test of line
\* 189; call then reads out_shapes and addr where no CpuKernel is and calls
\* what it read as addr. Reading or calling ends the process with a memory
\* fault, or the bytes read give some number n of outputs and the address of
\* some code, which is entered as an entry would be.
CbCallWild(th) ==
  /\ ~aborted /\ th.pc = "g_done"
  /\ th.kernel = Wild
  /\ \/ /\ aborted' = TRUE
        /\ Move(th, [th EXCEPT !.pc = "crashed"])
     \/ /\ UNCHANGED aborted
        /\ \E n \in 0..2 :
             Move(th, [th EXCEPT !.pc = "native",
                                 !.call_ins = CallIns(th.ins),
                                 !.outs = Outs(n, th.out),
                                 !.fn = Wild])
  /\ UNCHANGED <<statics, heap, dylibs, history>>

\* lines 167-169, 195: the native entry returns, then call and CpuCallback
NativeReturn(th) ==
  /\ ~aborted /\ th.pc = "native"
  /\ Move(th, Leave(th))
  /\ UNCHANGED <<statics, objects, history>>

\* ------------------------------------------------------------------- Next
Next ==
  \/ \E th \in Running : CallCreate(th)
  \/ \E th \in Running : CreateLock(th)
  \/ \E th \in Running : CreateAlloc(th)
  \/ \E th \in Running : CreateCompile(th)
  \/ \E th \in Running : CreateCompileFail(th)
  \/ \E th \in Running : CreateJITSkip(th)
  \/ \E th \in Running : CreateJITInit(th)
  \/ \E th \in Running : CreateJITFail(th)
  \/ \E th \in Running : CreateDylib(th)
  \/ \E th \in Running : CreateAddModule(th)
  \/ \E th \in Running : CreateAddModuleFail(th)
  \/ \E th \in Running : CreateLookup(th)
  \/ \E th \in Running : CreateLookupFail(th)
  \/ \E th \in Running : CreateEmplace(th)
  \/ \E th \in Running : CallCallback(th)
  \/ \E th \in Running : GetLock(th)
  \/ \E th \in Running : GetFind(th)
  \/ \E th \in Running : GetFindAssert(th)
  \/ \E th \in Running : CbFatal(th)
  \/ \E th \in Running : CbCall(th)
  \/ \E th \in Running : CbCallWild(th)
  \/ \E th \in Running : NativeReturn(th)

Spec == Init /\ [][Next]_vars

\* ------------------------------------------------------- fair executions
\* The threads are told apart. A thread inside a call takes its next step
\* when it can: compiling, linking and looking up end, and a lock that is
\* free and stays free is taken. The host need not call, and the native entry
\* need not return. The lock prefers no thread: a thread whose turn to take
\* the lock comes and goes may wait for it forever.
Tids == 1..NumThreads

InitFair ==
  /\ kernels = EmptyMap
  /\ last_identifier = 1
  /\ kernel_mutex = Unlocked
  /\ JIT = FALSE
  /\ DL = Null
  /\ heap = << >>
  /\ dylibs = << >>
  /\ aborted = FALSE
  /\ threads = SetToBag({[Idle EXCEPT !.tid = t] : t \in Tids})
  /\ allocated = << >>
  /\ returned = << >>
  /\ supplied = EmptyMap
  /\ failed = {}
  /\ compiled = NoMod
  /\ attempts = << >>

\* a step of thread t inside create or get
Step(t) ==
  \E th \in Running :
    /\ th.tid = t
    /\ \/ CreateLock(th) \/ CreateAlloc(th)
       \/ CreateCompile(th) \/ CreateCompileFail(th)
       \/ CreateJITSkip(th) \/ CreateJITInit(th) \/ CreateJITFail(th)
       \/ CreateDylib(th)
       \/ CreateAddModule(th) \/ CreateAddModuleFail(th)
       \/ CreateLookup(th) \/ CreateLookupFail(th)
       \/ CreateEmplace(th)
       \/ GetLock(th) \/ GetFind(th) \/ GetFindAssert(th)

Waiting(t) == \E th \in At({"c_lock", "g_lock"}) : th.tid = t

SpecFair ==
  /\ InitFair /\ [][Next]_vars
  /\ \A t \in Tids : WF_vars(Step(t))

\* ------------------------------------------------- the synthesizer alone
\* One create call holds the writer lock and is about to take its identifier
\* and synthesize; its descriptor lists are any lists of at most MaxArgs
\* descriptors.
InitSynth ==
  /\ kernels = EmptyMap
  /\ last_identifier = 1
  /\ kernel_mutex = [Unlocked EXCEPT !.writer = TRUE]
  /\ JIT = FALSE
  /\ DL = Null
  /\ heap = << >>
  /\ dylibs = << >>
  /\ aborted = FALSE
  /\ \E outputs \in DescriptorLists, inputs \in DescriptorLists :
       threads = SetToBag({[Idle EXCEPT !.pc = "c_alloc",
                                        !.out_shapes = ShapesOf(outputs),
                                        !.out_names = TypesOf(outputs),
                                        !.in_shapes = ShapesOf(inputs),
                                        !.in_names = TypesOf(inputs),
                                        !.pyargv = 1]})
                   (+) [th \in {Idle} |-> NumThreads - 1]
  /\ allocated = << >>
  /\ returned = << >>
  /\ supplied = EmptyMap
  /\ failed = {}
  /\ compiled = NoMod
  /\ attempts = << >>

NextSynth ==
  \/ \E th \in Running : CreateAlloc(th)
  \/ \E th \in Running : CreateCompileFail(th)

SpecSynth == InitSynth /\ [][NextSynth]_vars

\* ----------------------------------------------------------------- claims
Range(q) == {q[i] : i \in 1..Len(q)}

\* C1: every successful create returns an identifier strictly greater than
\* the identifier of every successful create that returned before it, so no
\* identifier is returned twice.
C1_ReturnedStrictlyIncreasing ==
  \A i, j \in 1..Len(returned) : i < j => returned[i] < returned[j]

\* two creates have returned
C1_Witness == Len(returned) = 2

\* C2: a step in which a create raises leaves the registry as that create
\* found it when it took the lock (the same identifiers, each with the same
\* CpuKernel), allocates no CpuKernel, and the identifier of the failed create
\* is not registered.
C2_RaiseLeavesRegistry ==
  [][failed' # failed =>
       /\ kernels' = kernels
       /\ heap' = heap
       /\ \A th \in At(InCreateBody) : Registry' = th.snap
       /\ (failed' \ failed) \cap DOMAIN kernels' = {}]_vars

\* a create has raised while an earlier create's kernel was registered
C2_Witness == \E f \in failed : \E k \in DOMAIN kernels : k < f

\* C3: a get that looks up an identifier a successful create has returned
\* finds a CpuKernel, and its out_shapes are the ones passed to that create.
C3_GetSeesSuppliedShapes ==
  \A th \in At({"g_done", "native", "fatal"}) :
    th.known =>
      /\ th.kernel # Null
      /\ th.kernel \in 1..Len(heap)
      /\ heap[th.kernel].out_shapes = supplied[th.identifier]

\* a get has found the two-output kernel registered as the second one
C3_Witness ==
  \E th \in At({"g_done"}) :
    /\ th.known /\ th.identifier = 2
    /\ Len(returned) = 2
    /\ supplied[1] = OneOut /\ supplied[2] = TwoOut

\* C4: a callback whose identifier no successful create had returned when get
\* looked it up gets nullptr, enters no native entry and leaves through
\* report_fatal_error, which ends the process.
\* The empty key breaks it once a kernel is registered: get may return a
\* pointer that is not null, and the callback goes on into call.
C4_UnknownIdentifierIsFatal ==
  /\ \A th \in At({"g_done"}) :
       ~th.known => th.kernel = Null /\ (~aborted => ENABLED CbFatal(th))
  /\ \A th \in At({"native"}) : th.known /\ th.kernel # Null
  /\ \A th \in At({"fatal"}) : ~th.known /\ aborted

\* C5: every CpuKernel the mapping holds, and every one a get has returned,
\* is complete: it carries its identifier and non-empty out_shapes, and its
\* addr is the entry of a materialized dylib that holds the module compiled
\* for that identifier; a create still in its body has registered nothing.
\* The empty key breaks it: what get returns for it need not be a CpuKernel.
Complete(k, r) ==
  /\ r.identifier = k
  /\ r.out_shapes \in {in.out_shapes : in \in CreateInputs}
  /\ \E lib \in 1..Len(dylibs) :
       /\ dylibs[lib].name = DylibName(k)
       /\ dylibs[lib].module = k
       /\ dylibs[lib].materialized
       /\ r.addr = EntryAddress(lib)

C5_OnlyCompleteRecordsVisible ==
  /\ \A k \in DOMAIN kernels :
       kernels[k] \in 1..Len(heap) /\ Complete(k, heap[kernels[k]])
  /\ \A th \in At({"g_done", "native"}) :
       th.kernel # Null =>
         th.kernel \in 1..Len(heap) /\ Complete(th.identifier, heap[th.kernel])
  /\ \A th \in At(InCreateBody) : th.identifier \notin DOMAIN kernels

\* C6: at most one thread is inside the body of create, it is the holder of
\* the writer lock, and no thread is in the lookup of get meanwhile.
C6_CreateIsExclusive ==
  /\ Count(At(InCreateBody)) <= 1
  /\ kernel_mutex.writer <=> At(InCreateBody) # {}
  /\ At(InCreateBody) # {} => At({"g_find"}) = {}

\* one thread compiles inside create while a create and a get are kept waiting
C6_Witness ==
  /\ At({"c_compile"}) # {}
  /\ At({"c_lock", "g_lock"}) # {}

\* C7: the reader lock is held during the lookup of get only: a thread in the
\* native entry (or between get and it) holds none, so a create that waits
\* for the writer lock can take it whenever no thread is inside create or
\* inside the lookup, whatever number of threads are in native entries.
C7_NativeCallOutsideLock ==
  /\ kernel_mutex.readers = Count(At({"g_find"}))
  /\ \A th \in At({"c_lock"}) :
       (~aborted /\ At(InCreateBody \cup {"g_find"}) = {})
         => ENABLED CreateLock(th)

\* a create is about to register its kernel while a native entry runs
C7_Witness ==
  /\ At({"native"}) # {}
  /\ At({"c_emplace"}) # {}

\* C8: a get that waits for the reader lock can take it unless a create
\* holds the writer lock, however many gets hold the reader lock.
C8_ReadersDoNotBlockReaders ==
  \A th \in At({"g_lock"}) :
    ~aborted => (ENABLED GetLock(th) \/ At(InCreateBody) # {})

\* a get waits for the reader lock while another get holds it
C8_Witness ==
  /\ At({"g_lock"}) # {}
  /\ At({"g_find"}) # {}
  /\ kernel_mutex.readers >= 1

\* C9: no step removes an identifier from the mapping, rebinds it to another
\* CpuKernel or changes the CpuKernel it is bound to; a pointer that get has
\* returned for a registered identifier stays the binding of that identifier.
C9_InsertOnly ==
  [][/\ \A k \in DOMAIN kernels :
          /\ k \in DOMAIN kernels'
          /\ kernels'[k] = kernels[k]
          /\ heap'[kernels[k]] = heap[kernels[k]]
     /\ \A th \in At({"g_done", "native"}) :
          th.known /\ th.kernel # Null =>
            /\ th.identifier \in DOMAIN kernels'
            /\ kernels'[th.identifier] = th.kernel]_vars

\* a get holds the first kernel, a second one has been registered since
C9_Witness ==
  \E th \in At({"g_done", "native"}) :
    /\ th.kernel # Null /\ th.identifier = 1
    /\ Len(returned) = 2

\* C10: the n-th create to take the lock is allocated identifier n, the
\* first one 1, and an identifier whose create raised is neither returned by
\* a create nor a key of the mapping.
C10_IdentifiersNeverReused ==
  /\ \A i \in 1..Len(allocated) : allocated[i] = i
  /\ last_identifier = Len(allocated) + 1
  /\ failed \cap Range(returned) = {}
  /\ failed \cap DOMAIN kernels = {}

\* a create has succeeded after the create before it raised
C10_Witness == failed = {1} /\ returned = <<2>>

Builds == 1..Len(attempts)

\* C11 as stated: the LLJIT builder runs at most once in the life of the
\* process.
C11_BuilderRunsAtMostOnce == Len(attempts) <= 1

\* C11, amended: the JIT singleton is set at most once, by the last run of
\* the builder; the builder runs only while JIT is unset, with a compiled
\* module at hand and under the writer lock, so never in two threads at
\* once. A run that fails leaves JIT unset and a later create runs it again.
C11_EngineSetAtMostOnce ==
  /\ Cardinality({i \in Builds : attempts[i].ok}) <= 1
  /\ \A i \in Builds : attempts[i].ok => i = Len(attempts)
  /\ JIT <=> \E i \in Builds : attempts[i].ok
  /\ \A i \in Builds : attempts[i].mod # NoMod
  /\ \A th \in At({"c_jit"}) : th.mod # NoMod /\ kernel_mutex.writer
  /\ Count(At({"c_jit"})) <= 1

\* the builder failed in one create and built the JIT in the next
C11_Witness == Len(attempts) = 2 /\ JIT

\* C12 as stated: once the builder has failed in a create, no create that
\* comes after it succeeds.
C12_JitFailureIsFinal ==
  \A i \in Builds :
    ~attempts[i].ok => \A r \in Range(returned) : r < attempts[i].mod.unit

\* C12, amended: a create in which the builder fails raises and leaves JIT
\* unset; while JIT is unset no kernel is registered, no dylib exists, no
\* create is past the initialization and a create that reaches it runs the
\* builder again, which may build the JIT; and every kernel that is
\* registered comes from a create at or after the one in which the builder
\* succeeded.
C12_NoKernelBeforeEngine ==
  /\ ~JIT =>
       /\ DOMAIN kernels = {} /\ returned = << >> /\ dylibs = << >>
       /\ At({"c_dylib", "c_add", "c_lookup", "c_emplace"}) = {}
       /\ \A th \in At({"c_jit"}) :
            ~aborted => /\ ENABLED CreateJITInit(th)
                        /\ ENABLED CreateJITFail(th)
                        /\ ~ENABLED CreateJITSkip(th)
  /\ \A i \in Builds : ~attempts[i].ok => attempts[i].mod.unit \in failed
  /\ \A r \in Range(returned) :
       \E i \in Builds : attempts[i].ok /\ attempts[i].mod.unit <= r

\* a create has succeeded after a create in which the builder failed
C12_Witness ==
  /\ \E i \in Builds : ~attempts[i].ok
  /\ returned # << >>

\* C13 as stated: the stored layout is the layout of the first module that
\* compiled.
C13_LayoutOfFirstCompiled == DL # Null => DL = compiled.layout

\* C13, amended: the stored layout is the layout of the module at hand in the
\* latest run of the builder. Every create that compiles while JIT is unset
\* derives it anew; once the JIT is built it is the layout of the module of
\* the create that built it, whatever later modules report.
C13_LayoutOfLatestBuild ==
  /\ attempts = << >> => DL = Null
  /\ attempts # << >> => DL = attempts[Len(attempts)].mod.layout
  /\ JIT => attempts # << >> /\ attempts[Len(attempts)].ok

\* a later create holds a module of another layout than the stored one
C13_Witness ==
  /\ JIT
  /\ \E th \in At({"c_dylib", "c_add"}) : th.mod.layout # DL

\* C14: a kernel with one declared output is entered with outs pointing to
\* a slot that holds the pointer the host passed; a kernel with more than one
\* is entered with outs being the value the host passed, so slot i of outs is
\* the host's pointer to output i. The entry entered is the kernel's.
C14_OutsByDeclaredCount ==
  \A th \in At({"native"}) :
    th.kernel \in 1..Len(heap) =>
    LET n == Len(heap[th.kernel].out_shapes)
    IN  /\ th.fn = heap[th.kernel].addr
        /\ n = 1 => th.outs = StackOut /\ Load(th, th.outs) = HostOut
        /\ n > 1 =>
             /\ th.outs = HostOut
             /\ \A i \in 0..(n - 1) :
                  Load(th, th.outs + i) = HostOutputPointers[i + 1]

\* a one-output kernel and a two-output kernel are in their native entries
C14_Witness ==
  /\ \E th \in At({"native"}) :
       th.kernel \in 1..Len(heap) /\ Len(heap[th.kernel].out_shapes) = 1
  /\ \E th \in At({"native"}) :
       th.kernel \in 1..Len(heap) /\ Len(heap[th.kernel].out_shapes) = 2

\* C15: the identifier a callback looks up is the int64 behind slot 0 of the
\* host's ins; the entry that is entered is the one registered under it, and
\* it is entered with the array that starts at slot 1 of the host's ins, so
\* its slot j is the host's pointer to input j and no slot of it is the
\* pointer to the identifier.
\* The empty key breaks it: the pointer get returns for it may be the
\* CpuKernel of a registered identifier, whose entry is then entered.
C15_FirstSlotIsIdentifier ==
  /\ \A th \in At({"g_lock", "g_find", "g_done", "native", "fatal"}) :
       th.identifier = th.cell
  /\ \A th \in At({"native"}) :
       /\ th.cell \in DOMAIN kernels
       /\ th.kernel = kernels[th.cell]
       /\ th.fn = heap[kernels[th.cell]].addr
       /\ \A j \in 0..(Len(HostInputPointers) - 1) :
            /\ Load(th, th.call_ins + j) = HostInputPointers[j + 1]
            /\ Load(th, th.call_ins + j) # Load(th, HostIns)

\* Reading a synthesized text back. The entry's body starts after the
\* header; every reinterpretation statement ends with "];\n".
BodyStart(input) == 1 + CHOOSE p \in DOMAIN input : input[p] = EntryHeader
BindEnds(input) == {p \in DOMAIN input : input[p] = "];\n"}
BindEnd(input, k) ==
  CHOOSE p \in BindEnds(input) :
    Cardinality({q \in BindEnds(input) : q < p}) = k - 1
BindStatement(input, k) ==
  SubSeq(input,
         IF k = 1 THEN BodyStart(input) ELSE BindEnd(input, k - 1) + 1,
         BindEnd(input, k))

\* the parts of one statement
\*   " " <type> <ref> <refindex> " = " "*(" <type> <array> <index> "];\n"
\* where <type> is ["const "] "enzyme::tensor<" typenam {", " extent} ">"
ParseBind(s) ==
  LET c == s[2] = "const "
      a == IF c THEN 3 ELSE 2
      z == CHOOSE p \in DOMAIN s : s[p] = ">" /\ \A q \in 1..(p - 1) : s[q] # ">"
  IN  [const |-> c,
       tensor |-> s[a] = "enzyme::tensor<",
       typenam |-> s[a + 1],
       shape |-> [d \in 1..((z - a - 2) \div 2) |-> s[a + 1 + 2 * d]],
       ref |-> s[z + 1],
       refindex |-> s[z + 2],
       casttype |-> SubSeq(s, z + 5, 2 * z + 3) = SubSeq(s, 2, z),
       array |-> s[2 * z + 4],
       index |-> s[2 * z + 5],
       length |-> Len(s) - 2 * z]

ExpectedBind(constv, typenam, shape, ref, array, i) ==
  [const |-> constv, tensor |-> TRUE, typenam |-> typenam,
   shape |-> [d \in 1..Len(shape) |-> ToString(shape[d])],
   ref |-> ref, refindex |-> ToString(i), casttype |-> TRUE,
   array |-> array, index |-> ToString(i), length |-> 6]

\* the arguments of the call that ends the body, without the separators
CallArguments(input, count) ==
  LET first == IF BindEnds(input) = {} THEN BodyStart(input)
               ELSE BindEnd(input, Cardinality(BindEnds(input))) + 1
      A == SubSeq(input, first + 1, Len(input) - 2)
  IN  [head |-> input[first],
       tail |-> SubSeq(input, Len(input) - 1, Len(input)),
       separated |-> /\ Len(A) = (IF count = 0 THEN 0 ELSE 3 * count - 1)
                     /\ \A k \in 1..(count - 1) : A[3 * k] = ", ",
       args |-> [k \in 1..count |-> <<A[3 * k - 2], A[3 * k - 1]>>]]

Synthesized == At({"c_compile", "c_jit", "c_dylib", "c_add", "c_lookup",
                   "c_emplace"})

\* C16: the synthesized entry has one reinterpretation statement per output
\* and per input, outputs first: statement i binds outs[i] to a non-const
\* reference out_i of the i-th output's type and shape, statement m + j binds
\* ins[j] to a const reference in_j of the j-th input's type and shape, and
\* the call passes out_0 .. out_{m-1}, in_0 .. in_{n-1} in this order.
C16_EntryBindsAndCall ==
  \A th \in Synthesized :
    LET m == Len(th.out_shapes)
        n == Len(th.in_shapes)
        call == CallArguments(th.input, m + n)
    IN  /\ Cardinality(BindEnds(th.input)) = m + n
        /\ \A i \in 0..(m - 1) :
             ParseBind(BindStatement(th.input, i + 1)) =
               ExpectedBind(FALSE, th.out_names[i + 1], th.out_shapes[i + 1],
                            "& out_", "*)outs[", i)
        /\ \A j \in 0..(n - 1) :
             ParseBind(BindStatement(th.input, m + j + 1)) =
               ExpectedBind(TRUE, th.in_names[j + 1], th.in_shapes[j + 1],
                            "& in_", "*)ins[", j)
        /\ call.head = "  myfn(" /\ call.tail = <<");\n", "}\n">>
        /\ call.separated
        /\ \A i \in 0..(m - 1) : call.args[i + 1] = <<"out_", ToString(i)>>
        /\ \A j \in 0..(n - 1) : call.args[m + j + 1] = <<"in_", ToString(j)>>

\* a text synthesized for full lists whose first output and first input
\* differ in type and in shape
C16_Witness ==
  \E th \in Synthesized :
    /\ Len(th.out_shapes) = MaxArgs /\ Len(th.in_shapes) = MaxArgs
    /\ th.out_names[1] # th.in_names[1]
    /\ th.out_shapes[1] # th.in_shapes[1]

Scopes == 1..Len(dylibs)

\* C17: the dylibs of the session have pairwise distinct names, whether the
\* create that made one failed afterwards or not; a create past line 131
\* works in the dylib named after its own identifier, the address it looks up
\* is the entry of that dylib and the module in it is its own; so the
\* addresses registered for two identifiers are entries of two dylibs.
C17_OwnScopePerCreate ==
  /\ \A i, j \in Scopes : i # j => dylibs[i].name # dylibs[j].name
  /\ \A th \in At({"c_add", "c_lookup", "c_emplace"}) :
       /\ th.LibA \in Scopes
       /\ dylibs[th.LibA].name = DylibName(th.identifier)
       /\ dylibs[th.LibA].module \in {NoMod.unit, th.identifier}
  /\ \A th \in At({"c_emplace"}) :
       /\ th.Entry = EntryAddress(th.LibA)
       /\ dylibs[th.LibA].module = th.identifier
  /\ \A k \in DOMAIN kernels :
       \A i \in Scopes :
         heap[kernels[k]].addr = EntryAddress(i) =>
           dylibs[i].name = DylibName(k) /\ dylibs[i].module = k
  /\ \A k1, k2 \in DOMAIN kernels :
       k1 # k2 => heap[kernels[k1]].addr # heap[kernels[k2]].addr

\* a create failed after making its dylib, and a later create has resolved
\* its entry in a dylib of its own
C17_Witness ==
  /\ \E i \in Scopes : dylibs[i].name \in {DylibName(k) : k \in failed}
  /\ \E th \in At({"c_emplace"}) :
       \E i \in Scopes : i # th.LibA /\ th.identifier > dylibs[i].name

\* C18: every key of the mapping is at least 1 and below last_identifier,
\* the record under key k has identifier k, the create that is about to
\* insert finds its key absent, and every returned identifier is a key whose
\* record was constructed by that create: there are as many records as keys
\* and as returned identifiers.
C18_KeysBelowCounter ==
  /\ \A k \in DOMAIN kernels :
       /\ 1 <= k /\ k < last_identifier
       /\ heap[kernels[k]].identifier = k
  /\ \A th \in At({"c_emplace"}) :
       /\ th.identifier \notin DOMAIN kernels
       /\ TryEmplace(kernels, th.identifier, Len(heap) + 1) # kernels
  /\ \A i \in 1..Len(returned) :
       /\ returned[i] \in DOMAIN kernels
       /\ kernels[returned[i]] = i
  /\ Len(heap) = Cardinality(DOMAIN kernels)
  /\ Len(heap) = Len(returned)

\* a create is about to insert while the mapping holds an earlier kernel
C18_Witness ==
  /\ At({"c_emplace"}) # {}
  /\ DOMAIN kernels # {}

InCreate(t) == \E th \in At({"c_lock"} \cup InCreateBody) : th.tid = t
InGet(t) == \E th \in At({"g_lock", "g_find"}) : th.tid = t
Holds(t) == \E th \in At(InCreateBody \cup {"g_find"}) : th.tid = t

\* the writer or a reader lets go of the lock
Release ==
  \/ kernel_mutex.writer /\ ~kernel_mutex'.writer
  \/ kernel_mutex'.readers < kernel_mutex.readers

\* the claim's hypothesis, the lock is fair: while the lock keeps being
\* released, no thread waits for it forever
LockIsFair == \A t \in Tids : []<><<Release>>_vars => []<>~Waiting(t)

\* some thread inside create or get can take a step
StepAny == \E t \in Tids : Step(t)

\* C19: under SpecFair, unless the process is ended, a thread that holds the
\* lock lets go of it on whatever path it leaves create or get, and while a
\* thread waits some thread inside create or get can take a step; if the lock
\* is fair, a thread that waits for the lock comes to hold it and a thread
\* inside create or get leaves it, whether or not earlier creates have failed.
C19_FairLockWaitersComplete ==
  /\ \A t \in Tids : Holds(t) ~> (~Holds(t) \/ aborted)
  /\ \A t \in Tids : [](Waiting(t) /\ ~aborted => ENABLED StepAny)
  /\ LockIsFair =>
       \A t \in Tids :
         /\ Waiting(t) ~> (Holds(t) \/ aborted)
         /\ InCreate(t) ~> (~InCreate(t) \/ aborted)
         /\ InGet(t) ~> (~InGet(t) \/ aborted)

\* a get waits for the lock that a create holds after an earlier create has
\* failed
C19_Witness ==
  /\ failed # {}
  /\ kernel_mutex.writer
  /\ At({"g_lock"}) # {}

====
